---- MODULE Spec2Model ----
(***************************************************************************)
(* compare_dataframe_columns of src/code_for_work.py as a state machine:   *)
(* one call of the function walks from "start" to "done" (a mapping was    *)
(* returned) or to "raised" (a ValueError left the function).              *)
(*                                                                         *)
(* Strings are TLA+ strings.  A Python dict is a sequence of [key, val]    *)
(* records in insertion order.  A column set is a TLA+ set of strings.     *)
(***************************************************************************)
EXTENDS Integers, Sequences, FiniteSets, TLC

\* The largest number of dataframes one call is given.
MaxDatasets == 3

\* "=" * 60
BannerWidth == 60

\* df.columns of the dataframes a call may be given: the three tables of the
\* docstring example, and one whose column names repeat, are out of order
\* and hold a name that is a prefix of another.
Tables ==
    { <<"A", "B", "C">>,
      <<"A", "D">>,
      <<"A", "B", "E">>,
      <<"E", "AB", "E", "A">> }

\* The strings a caller passes in names.
NamePool == {"Sales", "Marketing", "HR"}

\* The characters of each column name, and their code points (str order).
Chars ==
    ("A" :> <<"A">>) @@ ("B" :> <<"B">>) @@ ("C" :> <<"C">>) @@
    ("D" :> <<"D">>) @@ ("E" :> <<"E">>) @@ ("AB" :> <<"A", "B">>)

Ord ==
    ("A" :> 65) @@ ("B" :> 66) @@ ("C" :> 67) @@ ("D" :> 68) @@ ("E" :> 69)

\* names=None, or names=<a list>
NoneNames == [isNone |-> TRUE, val |-> <<>>]

ListNames(s) == [isNone |-> FALSE, val |-> s]

\* No exception has left the function.
NoError == [type |-> "", msg |-> ""]

\* The outcome of a call that has not been made.
NoCall == [made |-> FALSE, print_results |-> FALSE, error |-> NoError, ret |-> <<>>]

SeqsUpTo(S, n) == UNION { [1..k -> S] : k \in 0..n }

Range(s) == { s[k] : k \in 1..Len(s) }

--------------------------------------------------------------------------
\* Python str comparison: by code point at the first difference, a proper
\* prefix before the longer string.
CharsLess(a, b) ==
    \E k \in 1..(Len(b)) :
        /\ \A m \in 1..(k - 1) : m <= Len(a) /\ a[m] = b[m]
        /\ k - 1 <= Len(a)
        /\ \/ k = Len(a) + 1
           \/ k <= Len(a) /\ Ord[a[k]] < Ord[b[k]]

StrLess(a, b) == CharsLess(Chars[a], Chars[b])

\* A faulty variant of Sorted: sorted(..., reverse=True).
RECURSIVE Sorted_Reversed(_)
Sorted_Reversed(S) ==
    IF S = {} THEN <<>>
    ELSE LET m == CHOOSE x \in S : \A y \in S : ~StrLess(x, y)
         IN  <<m>> \o Sorted_Reversed(S \ {m})

\* sorted(list(S)): whatever order list(S) has, the result is the ascending
\* arrangement of the elements of S.
RECURSIVE Sorted(_)
Sorted(S) ==
    IF S = {} THEN <<>>
    ELSE LET m == CHOOSE x \in S : \A y \in S : ~StrLess(y, x)
         IN  <<m>> \o Sorted(S \ {m})

\* A faulty variant of DictSet: an existing key is deleted and inserted again at the end.
DictSet_MovesToEnd(d, k, v) ==
    Append(SelectSeq(d, LAMBDA e : e.key # k), [key |-> k, val |-> v])

\* d[k] = v on a dict: an existing key keeps its place and takes the new
\* value; a new key goes to the end.
DictSet(d, k, v) ==
    IF \E p \in 1..Len(d) : d[p].key = k
    THEN [p \in 1..Len(d) |-> IF d[p].key = k THEN [key |-> k, val |-> v] ELSE d[p]]
    ELSE Append(d, [key |-> k, val |-> v])

\* d[k] for a key the dict holds.
DictGet(d, k) == d[CHOOSE p \in 1..Len(d) : d[p].key = k].val

Keys(d) == [p \in 1..Len(d) |-> d[p].key]

\* A faulty variant of TooFewFrames: len(dataframes) < 1.
TooFewFrames_OffByOne(n) == n < 1

\* len(dataframes) < 2
TooFewFrames(n) == n < 2

\* A faulty variant of NamesDiffer: len(names) < len(dataframes).
NamesDiffer_OnlyFewer(nNames, nFrames) == nNames < nFrames

\* len(names) != len(dataframes)
NamesDiffer(nNames, nFrames) == nNames # nFrames

\* zip(names, dataframes) stops at the shorter of the two.
ZipLen(nm, dfs) == IF Len(nm) < Len(dfs) THEN Len(nm) ELSE Len(dfs)

\* set(df.columns)
ColumnSet(df) == Range(df)

\* A faulty variant of DefaultNames: f"df{i}".
DefaultNames_ZeroBased(n) == [p \in 1..n |-> "df" \o ToString(p - 1)]

\* f"df{i+1}" for i in range(n); position p of the result is Python's i = p-1.
DefaultNames(n) == [p \in 1..n |-> "df" \o ToString(p)]

\* {name: set(df.columns) for name, df in zip(names, dataframes)}
RECURSIVE ColumnSetsUpTo(_, _, _)
ColumnSetsUpTo(nm, dfs, n) ==
    IF n = 0 THEN <<>>
    ELSE DictSet(ColumnSetsUpTo(nm, dfs, n - 1), nm[n], ColumnSet(dfs[n]))

\* A faulty variant of OtherCols: the inner loop stops one position early.
OtherCols_SkipsLast(cs, nm, p) ==
    UNION { DictGet(cs, nm[j]) : j \in (1..(Len(nm) - 1)) \ {p} }

\* A faulty variant of OtherCols: the inner loop skips by name (other_name != name)
\* instead of by position.
OtherCols_ByName(cs, nm, p) ==
    UNION { DictGet(cs, nm[j]) : j \in { q \in 1..Len(nm) : nm[q] # nm[p] } }

\* The inner loop: the union of column_sets[other_name] over the positions
\* j != i of names.
OtherCols(cs, nm, p) ==
    UNION { DictGet(cs, nm[j]) : j \in (1..Len(nm)) \ {p} }

\* A faulty variant of UniqueOf: current_cols & other_cols.
UniqueOf_KeepsShared(cs, nm, p) ==
    Sorted(DictGet(cs, nm[p]) \cap UNION { DictGet(cs, nm[j]) : j \in (1..Len(nm)) \ {p} })

\* sorted(list(current_cols - other_cols))
UniqueOf(cs, nm, p) == Sorted(DictGet(cs, nm[p]) \ OtherCols(cs, nm, p))

\* "=" * n
RECURSIVE Repeat(_, _)
Repeat(s, n) == IF n = 0 THEN "" ELSE s \o Repeat(s, n - 1)

\* str(list) of a list of column names: ['A', 'B']
RECURSIVE ReprItems(_)
ReprItems(l) ==
    IF Len(l) = 0 THEN ""
    ELSE IF Len(l) = 1 THEN "'" \o l[1] \o "'"
    ELSE "'" \o l[1] \o "', " \o ReprItems(Tail(l))

ListRepr(l) == "[" \o ReprItems(l) \o "]"

\* A faulty variant of ReportLine: the two templates the wrong way round.
ReportLine_Swapped(df_name, unique_cols) ==
    IF unique_cols = <<>>
    THEN df_name \o " has " \o ListRepr(unique_cols)
                 \o " which are not present in other dataframes"
    ELSE df_name \o " has no unique columns"

\* The line printed for one item of unique_columns.
ReportLine(df_name, unique_cols) ==
    IF unique_cols # <<>>
    THEN df_name \o " has " \o ListRepr(unique_cols)
                 \o " which are not present in other dataframes"
    ELSE df_name \o " has no unique columns"

TooFewError ==
    [type |-> "ValueError", msg |-> "Please provide at least 2 dataframes to compare"]

MismatchError(nNames, nFrames) ==
    [type |-> "ValueError",
     msg  |-> "Number of names (" \o ToString(nNames)
              \o ") must match number of dataframes (" \o ToString(nFrames) \o ")"]

--------------------------------------------------------------------------
VARIABLES
    dataframes,      \* *dataframes: the column sequence of each dataframe
    names_arg,       \* the names argument as passed
    print_results,   \* the print_results argument
    pc,              \* where the call is
    names,           \* the local names (rebound when names is None)
    column_sets,     \* the dict column_sets
    unique_columns,  \* the dict unique_columns
    i,               \* the position the outer loop is at (Python's i + 1)
    k,               \* the item of unique_columns the report loop is at
    stdout,          \* the lines written to standard output by this call
    error,           \* the exception that left the function
    ret,             \* the value returned
    prev             \* the outcome of the call before this one

vars == <<dataframes, names_arg, print_results, pc, names, column_sets,
          unique_columns, i, k, stdout, error, ret, prev>>

args == <<dataframes, names_arg>>

NameArgs == {NoneNames} \cup { ListNames(s) : s \in SeqsUpTo(NamePool, MaxDatasets) }

Init ==
    /\ dataframes \in SeqsUpTo(Tables, MaxDatasets)
    /\ names_arg \in NameArgs
    /\ print_results \in BOOLEAN
    /\ pc = "start"
    /\ names = names_arg
    /\ column_sets = <<>>
    /\ unique_columns = <<>>
    /\ i = 1
    /\ k = 1
    /\ stdout = <<>>
    /\ error = NoError
    /\ ret = <<>>
    /\ prev = NoCall

\* if len(dataframes) < 2: raise ValueError(...)
TooFew ==
    /\ pc = "start"
    /\ TooFewFrames(Len(dataframes))
    /\ error' = TooFewError
    /\ pc' = "raised"
    /\ UNCHANGED <<args, print_results, names, column_sets, unique_columns,
                   i, k, stdout, ret, prev>>

EnoughFrames ==
    /\ pc = "start"
    /\ ~TooFewFrames(Len(dataframes))
    /\ pc' = "names"
    /\ UNCHANGED <<args, print_results, names, column_sets, unique_columns,
                   i, k, stdout, error, ret, prev>>

\* if names is None: names = [f"df{i+1}" ...]
GenerateNames ==
    /\ pc = "names"
    /\ names.isNone
    /\ names' = ListNames(DefaultNames(Len(dataframes)))
    /\ pc' = "sets"
    /\ UNCHANGED <<args, print_results, column_sets, unique_columns,
                   i, k, stdout, error, ret, prev>>

\* elif len(names) != len(dataframes): raise ValueError(...)
NamesMismatch ==
    /\ pc = "names"
    /\ ~names.isNone
    /\ NamesDiffer(Len(names.val), Len(dataframes))
    /\ error' = MismatchError(Len(names.val), Len(dataframes))
    /\ pc' = "raised"
    /\ UNCHANGED <<args, print_results, names, column_sets, unique_columns,
                   i, k, stdout, ret, prev>>

NamesGiven ==
    /\ pc = "names"
    /\ ~names.isNone
    /\ ~NamesDiffer(Len(names.val), Len(dataframes))
    /\ pc' = "sets"
    /\ UNCHANGED <<args, print_results, names, column_sets, unique_columns,
                   i, k, stdout, error, ret, prev>>

\* column_sets = {...}; unique_columns = {}
BuildColumnSets ==
    /\ pc = "sets"
    /\ column_sets' = ColumnSetsUpTo(names.val, dataframes, ZipLen(names.val, dataframes))
    /\ unique_columns' = <<>>
    /\ i' = 1
    /\ pc' = "loop"
    /\ UNCHANGED <<args, print_results, names, k, stdout, error, ret, prev>>

\* One pass of the body of for i, (name, df) in enumerate(zip(names, dataframes))
LoopBody ==
    /\ pc = "loop"
    /\ i <= ZipLen(names.val, dataframes)
    /\ unique_columns' =
           DictSet(unique_columns, names.val[i], UniqueOf(column_sets, names.val, i))
    /\ i' = i + 1
    /\ UNCHANGED <<args, print_results, pc, names, column_sets, k, stdout,
                   error, ret, prev>>

\* The loop is exhausted: if print_results: ...
LoopExit ==
    /\ pc = "loop"
    /\ i > ZipLen(names.val, dataframes)
    /\ pc' = IF print_results THEN "header" ELSE "return"
    /\ UNCHANGED <<args, print_results, names, column_sets, unique_columns,
                   i, k, stdout, error, ret, prev>>

\* print("=" * 60); print(title); print("=" * 60); print()
ReportHeader ==
    /\ pc = "header"
    /\ stdout' = stdout \o << Repeat("=", BannerWidth),
                              "DATAFRAME COLUMN COMPARISON RESULTS",
                              Repeat("=", BannerWidth),
                              "" >>
    /\ k' = 1
    /\ pc' = "report"
    /\ UNCHANGED <<args, print_results, names, column_sets, unique_columns,
                   i, error, ret, prev>>

\* One pass of for df_name, unique_cols in unique_columns.items()
ReportItem ==
    /\ pc = "report"
    /\ k <= Len(unique_columns)
    /\ stdout' = Append(stdout, ReportLine(unique_columns[k].key, unique_columns[k].val))
    /\ k' = k + 1
    /\ UNCHANGED <<args, print_results, pc, names, column_sets, unique_columns,
                   i, error, ret, prev>>

\* A faulty variant of ReportFooter: the report empties unique_columns as it ends.
ReportFooter_Clears ==
    /\ pc = "report"
    /\ k > Len(unique_columns)
    /\ stdout' = Append(stdout, Repeat("=", BannerWidth))
    /\ unique_columns' = <<>>
    /\ pc' = "return"
    /\ UNCHANGED <<args, print_results, names, column_sets, i, k, error, ret, prev>>

\* print("=" * 60) after the report loop
ReportFooter ==
    /\ pc = "report"
    /\ k > Len(unique_columns)
    /\ stdout' = Append(stdout, Repeat("=", BannerWidth))
    /\ pc' = "return"
    /\ UNCHANGED <<args, print_results, names, column_sets, unique_columns,
                   i, k, error, ret, prev>>

\* return unique_columns
Return ==
    /\ pc = "return"
    /\ ret' = unique_columns
    /\ pc' = "done"
    /\ UNCHANGED <<args, print_results, names, column_sets, unique_columns,
                   i, k, stdout, error, prev>>

\* The caller calls the function once more with the same dataframes and
\* names and the other value of print_results; every local starts afresh.
CallAgain ==
    /\ pc \in {"done", "raised"}
    /\ ~prev.made
    /\ prev' = [made |-> TRUE, print_results |-> print_results,
                error |-> error, ret |-> ret]
    /\ print_results' = ~print_results
    /\ pc' = "start"
    /\ names' = names_arg
    /\ column_sets' = <<>>
    /\ unique_columns' = <<>>
    /\ i' = 1
    /\ k' = 1
    /\ stdout' = <<>>
    /\ error' = NoError
    /\ ret' = <<>>
    /\ UNCHANGED args

Next ==
    \/ TooFew
    \/ EnoughFrames
    \/ GenerateNames
    \/ NamesMismatch
    \/ NamesGiven
    \/ BuildColumnSets
    \/ LoopBody
    \/ LoopExit
    \/ ReportHeader
    \/ ReportItem
    \/ ReportFooter
    \/ Return
    \/ CallAgain

Spec == Init /\ [][Next]_vars

--------------------------------------------------------------------------
(* What the properties below are stated in: the arguments of the call and  *)
(* the mapping it returned, read without the operators of the model.       *)

N == Len(dataframes)

\* At least 2 datasets, and names omitted or as long as the datasets.
ValidCall == N >= 2 /\ (names_arg.isNone \/ Len(names_arg.val) = N)

DfKeys == <<"df1", "df2", "df3", "df4", "df5", "df6">>

\* The effective names of a valid call: explicit, or df1..dfN.
EffNames == IF names_arg.isNone THEN SubSeq(DfKeys, 1, N) ELSE names_arg.val

Distinct(s) == \A p, q \in 1..Len(s) : p # q => s[p] # s[q]

\* s with every name dropped that occurred before.
RECURSIVE FirstOccurrences(_)
FirstOccurrences(s) ==
    IF s = <<>> THEN <<>>
    ELSE LET front == SubSeq(s, 1, Len(s) - 1)
             last  == s[Len(s)]
         IN  IF \E p \in 1..Len(front) : front[p] = last
             THEN FirstOccurrences(front)
             ELSE Append(FirstOccurrences(front), last)

\* The columns of dataset j, and those that appear in no other dataset.
Cols(j) == { dataframes[j][c] : c \in 1..Len(dataframes[j]) }

OnlyIn(j) == { c \in Cols(j) : \A m \in 1..N : m # j => c \notin Cols(m) }

AllCols == UNION { Cols(j) : j \in 1..N }

SharedCols == { c \in AllCols : \E j, m \in 1..N : j # m /\ c \in Cols(j) /\ c \in Cols(m) }

\* The entries of a mapping under a name, and the columns stored under it.
EntriesOf(d, name) == { p \in 1..Len(d) : d[p].key = name }

StoredUnder(d, name) ==
    UNION { { d[p].val[c] : c \in 1..Len(d[p].val) } : p \in EntriesOf(d, name) }

Reported(d) == UNION { { d[p].val[c] : c \in 1..Len(d[p].val) } : p \in 1..Len(d) }

\* Python's order of the column names in use.
Ascending == <<"A", "AB", "B", "C", "D", "E">>

Rank(c) == CHOOSE r \in 1..Len(Ascending) : Ascending[r] = c

StrictlyAscending(l) == \A a, b \in 1..Len(l) : a < b => Rank(l[a]) < Rank(l[b])

Returned == pc = "done"

--------------------------------------------------------------------------
\* C1 as stated: on every valid call, duplicate names included, the value
\* stored under the name of dataset j is exactly the columns that appear in
\* dataset j and in no other dataset.
C1_AsStated ==
    (Returned /\ ValidCall) =>
        \A j \in 1..N :
            /\ EntriesOf(ret, EffNames[j]) # {}
            /\ StoredUnder(ret, EffNames[j]) \subseteq Cols(j)
            /\ \A m \in 1..N : m # j => StoredUnder(ret, EffNames[j]) \cap Cols(m) = {}
            /\ StoredUnder(ret, EffNames[j]) = OnlyIn(j)

\* C1 amended: on every valid call the value stored under the name of
\* dataset j is a subset of dataset j's columns; when the names are omitted
\* or pairwise distinct it is disjoint from every other dataset's columns and
\* is exactly the columns that appear in dataset j and in no other dataset.
C1_UniquePerDataset ==
    (Returned /\ ValidCall) =>
        \A j \in 1..N :
            /\ EntriesOf(ret, EffNames[j]) # {}
            /\ StoredUnder(ret, EffNames[j]) \subseteq Cols(j)
            /\ Distinct(EffNames) =>
                  /\ \A m \in 1..N :
                        m # j => StoredUnder(ret, EffNames[j]) \cap Cols(m) = {}
                  /\ StoredUnder(ret, EffNames[j]) = OnlyIn(j)

\* The docstring example: {A,B,C}, {A,D}, {A,B,E} named Sales, Marketing, HR
\* gives {Sales: [C], Marketing: [D], HR: [E]}.
C1_Witness ==
    /\ Returned
    /\ dataframes = << <<"A", "B", "C">>, <<"A", "D">>, <<"A", "B", "E">> >>
    /\ names_arg = ListNames(<<"Sales", "Marketing", "HR">>)
    /\ ret = << [key |-> "Sales", val |-> <<"C">>],
                [key |-> "Marketing", val |-> <<"D">>],
                [key |-> "HR", val |-> <<"E">>] >>

\* C2 as stated: on every valid call the returned mapping has N keys, and
\* they are the effective names in input order.
C2_AsStated ==
    (Returned /\ ValidCall) => (Len(ret) = N /\ Keys(ret) = EffNames)

\* C2 amended: on every valid call the keys of the returned mapping are the
\* effective names in input order with every repeated name kept only at its
\* first position; there are N keys exactly when the names are omitted or
\* pairwise distinct.
C2_KeysAreFirstOccurrences ==
    (Returned /\ ValidCall) =>
        /\ [p \in 1..Len(ret) |-> ret[p].key] = FirstOccurrences(EffNames)
        /\ (Len(ret) = N) <=> Distinct(EffNames)
        /\ Distinct(EffNames) => [p \in 1..Len(ret) |-> ret[p].key] = EffNames

C2_Witness ==
    /\ Returned
    /\ N = 3
    /\ names_arg = ListNames(<<"Sales", "HR", "Sales">>)
    /\ [p \in 1..Len(ret) |-> ret[p].key] = <<"Sales", "HR">>

\* C3: with fewer than 2 datasets the call raises the too-few ValueError
\* whatever names and print_results are: it never gets past the first check,
\* returns nothing and writes nothing.
C3_TooFewRaises ==
    N < 2 =>
        /\ pc \in {"start", "raised"}
        /\ ret = <<>>
        /\ stdout = <<>>
        /\ column_sets = <<>>
        /\ pc = "raised" =>
              /\ error.type = "ValueError"
              /\ error.msg = "Please provide at least 2 dataframes to compare"

\* One dataset, three names, print_results true: still the too-few error.
C3_Witness ==
    /\ pc = "raised"
    /\ N = 1
    /\ ~names_arg.isNone
    /\ Len(names_arg.val) = 3
    /\ print_results
    /\ error.msg = "Please provide at least 2 dataframes to compare"

\* C4: with at least 2 datasets and names of another length the call raises
\* a ValueError before any column set is computed: nothing is returned and
\* nothing is written, print_results or not.
C4_MismatchRaises ==
    (N >= 2 /\ ~names_arg.isNone /\ Len(names_arg.val) # N) =>
        /\ pc \in {"start", "names", "raised"}
        /\ column_sets = <<>>
        /\ unique_columns = <<>>
        /\ ret = <<>>
        /\ stdout = <<>>
        /\ pc = "raised" =>
              /\ error.type = "ValueError"
              /\ error.msg # "Please provide at least 2 dataframes to compare"

\* Two datasets and three names, print_results true.
C4_Witness ==
    /\ pc = "raised"
    /\ N = 2
    /\ ~names_arg.isNone
    /\ Len(names_arg.val) = 3
    /\ print_results
    /\ error.msg = "Number of names (3) must match number of dataframes (2)"

\* Two datasets and one name (the scenario names=["x"]).
C4_WitnessShorter ==
    /\ pc = "raised"
    /\ N = 2
    /\ ~names_arg.isNone
    /\ Len(names_arg.val) = 1

\* C5: with names omitted the keys of the returned mapping are df1..dfN in
\* call order, and dfK holds the columns that only the K-th dataset has.
C5_DefaultKeys ==
    (Returned /\ names_arg.isNone) =>
        /\ Len(ret) = N
        /\ \A j \in 1..N :
              /\ ret[j].key = DfKeys[j]
              /\ { ret[j].val[c] : c \in 1..Len(ret[j].val) } = OnlyIn(j)

C5_Witness ==
    /\ Returned
    /\ names_arg.isNone
    /\ N = 3
    /\ ret[1].key = "df1" /\ ret[2].key = "df2" /\ ret[3].key = "df3"
    /\ ret[2].val = <<"D">>

\* C6 as stated: on every valid call the columns reported under some key
\* together with the columns that appear in 2 or more datasets are all the
\* columns of the datasets.
C6_AsStated ==
    (Returned /\ ValidCall) => (Reported(ret) \cup SharedCols = AllCols)

\* C6 amended: on every valid call no column is invented (the reported
\* columns are columns of the datasets), and when the names are omitted or
\* pairwise distinct none is lost: reported and shared columns together are
\* all the columns of the datasets.
C6_Partition ==
    (Returned /\ ValidCall) =>
        /\ Reported(ret) \cup SharedCols \subseteq AllCols
        /\ Distinct(EffNames) => Reported(ret) \cup SharedCols = AllCols

C6_Witness ==
    /\ Returned
    /\ Distinct(EffNames)
    /\ ~names_arg.isNone
    /\ N = 3
    /\ Reported(ret) # {}
    /\ SharedCols # {}
    /\ Reported(ret) \cup SharedCols = AllCols

\* C7: every value of unique_columns, and so of the returned mapping, is
\* strictly ascending in Python's string order with no repeated element, also
\* for a dataset whose column names repeat.
C7_StrictlyAscending ==
    /\ \A p \in 1..Len(unique_columns) : StrictlyAscending(unique_columns[p].val)
    /\ \A p \in 1..Len(ret) : StrictlyAscending(ret[p].val)

\* <<E, AB, E, A>> against <<A, D>>: E repeats, and AB and E come out as
\* [AB, E].
C7_Witness ==
    /\ Returned
    /\ dataframes = << <<"E", "AB", "E", "A">>, <<"A", "D">> >>
    /\ ret[1].val = <<"AB", "E">>

Banner == "============================================================"

ExpectedLine(e) ==
    IF Len(e.val) = 0
    THEN e.key \o " has no unique columns"
    ELSE e.key \o " has " \o ListRepr(e.val) \o " which are not present in other dataframes"

ExpectedHead == <<Banner, "DATAFRAME COLUMN COMPARISON RESULTS", Banner, "">>

\* C8 as stated: on a valid call with print_results true the output is the
\* header, one line per input dataset in input order, and the closing banner.
C8_AsStated ==
    (Returned /\ ValidCall /\ print_results) =>
        /\ Len(stdout) = N + 5
        /\ SubSeq(stdout, 1, 4) = ExpectedHead
        /\ \A j \in 1..N :
              \E p \in EntriesOf(ret, EffNames[j]) : stdout[4 + j] = ExpectedLine(ret[p])
        /\ stdout[Len(stdout)] = Banner

\* C8 amended: on a valid call with print_results true the output is a
\* banner of 60 '=', the title, a banner, a blank line, one line per entry of
\* the returned mapping in key order (one per input dataset when the names
\* are omitted or pairwise distinct) by the template its value selects, and a
\* closing banner; with print_results false nothing is ever written.
C8_Report ==
    /\ (Returned /\ ValidCall /\ print_results) =>
          /\ stdout = ExpectedHead
                      \o [p \in 1..Len(ret) |-> ExpectedLine(ret[p])]
                      \o <<Banner>>
          /\ Distinct(EffNames) => Len(stdout) = N + 5
    /\ ~print_results => stdout = <<>>

C8_Witness ==
    /\ Returned
    /\ print_results
    /\ stdout = << Banner, "DATAFRAME COLUMN COMPARISON RESULTS", Banner, "",
                   "Sales has ['AB', 'E'] which are not present in other dataframes",
                   "HR has no unique columns",
                   "Marketing has no unique columns",
                   Banner >>

\* C9: a call with the same datasets and names and the other value of
\* print_results ends the same way: the same mapping returned, or the same
\* error raised.
C9_PrintIndependent ==
    (pc \in {"done", "raised"} /\ prev.made) =>
        /\ prev.print_results # print_results
        /\ prev.error = error
        /\ prev.ret = ret

\* A call that printed and returned a mapping with a unique column, then the
\* same call without printing.
C9_Witness ==
    /\ Returned
    /\ prev.made
    /\ prev.print_results
    /\ ~print_results
    /\ Reported(ret) # {}
    /\ prev.ret = ret

\* C10: a name given to two or more datasets has a single entry in the
\* returned mapping, its value is the empty list, and a column that no
\* dataset with an unrepeated name has is reported under no key.
Repeated(j) == \E m \in 1..N : m # j /\ EffNames[m] = EffNames[j]

C10_DuplicateNames ==
    (Returned /\ ValidCall) =>
        /\ \A j \in 1..N :
              Repeated(j) =>
                  /\ Cardinality(EntriesOf(ret, EffNames[j])) = 1
                  /\ \A p \in EntriesOf(ret, EffNames[j]) : ret[p].val = <<>>
        /\ \A c \in AllCols :
              (\A j \in 1..N : c \in Cols(j) => Repeated(j)) => c \notin Reported(ret)

\* Sales twice, over datasets which each have a column of their own.
C10_Witness ==
    /\ Returned
    /\ dataframes = << <<"A", "B", "C">>, <<"A", "D">> >>
    /\ names_arg = ListNames(<<"Sales", "Sales">>)
    /\ ret = << [key |-> "Sales", val |-> <<>>] >>

====
